---------------------------- MODULE Spec2Model ----------------------------
(***************************************************************************)
(* A model of the Mython interpreter (asinpro/cpp-mython):                 *)
(*   - the lexer with significant indentation    (src/mython/lexer.cpp)    *)
(*   - the runtime object model                  (src/mython/runtime.cpp)  *)
(*   - the statement tree evaluator              (src/mython/statement.cpp)*)
(***************************************************************************)
EXTENDS Integers, Sequences, FiniteSets, TLC

VARIABLES
    \* ---- parse::Lexer ----
    input_,          \* std::istream& input_ : [buf, eof, fail]
    line_,           \* std::istringstream line_ : the unread characters
    context_,        \* Context context_ : [indent, new_indent]
    current_token_,  \* Token current_token_
    tokens,          \* history: every token produced so far, in order
    source,          \* history: the whole character input given to the lexer
    \* ---- runtime / ast ----
    closure,         \* the global Closure the host executes statements against
    heap,            \* the ClassInstance objects: heap[id] = [cls, fields]
    out,             \* Context::GetOutputStream(): what has been written
    pc,              \* the host: "idle", or "done" holding an Execute() result
    last             \* history: the statement executed last and its outcome

lexvars == <<input_, line_, context_, current_token_, tokens, source>>

evalvars == <<closure, heap, out, pc, last>>

vars == <<input_, line_, context_, current_token_, tokens, source,
          closure, heap, out, pc, last>>

(***************************************************************************)
(*                               LEXER                                     *)
(***************************************************************************)

\* Bounds of the lexer model.
MaxLen == 5          \* longest character input
MaxEofCalls == 2     \* NextToken() calls made after the first Eof

SP == " "
NL == "\n"
Alphabet == {SP, NL, "a", "1", "#", "'", "\\"}

Letters == {"a", "b", "c", "d", "e", "f", "i", "l", "n", "o", "p", "r", "s", "t",
            "u", "N", "T", "F"}
Digits == {"0", "1", "2", "3", "4", "5", "6", "7", "8", "9"}

isalpha(c) == c \in Letters
isdigit(c) == c \in Digits

DigitValue(c) ==
    CASE c = "0" -> 0 [] c = "1" -> 1 [] c = "2" -> 2 [] c = "3" -> 3
      [] c = "4" -> 4 [] c = "5" -> 5 [] c = "6" -> 6 [] c = "7" -> 7
      [] c = "8" -> 8 [] c = "9" -> 9

\* Token: a tagged variant; value carries the payload of Id, String and Char,
\* num the payload of Number.
Tok(type) == [type |-> type, value |-> <<>>, num |-> 0]
TokV(type, value) == [type |-> type, value |-> value, num |-> 0]
TokN(n) == [type |-> "Number", value |-> <<>>, num |-> n]

IsSpecialChar(c) == c = "=" \/ c = "!" \/ c = "<" \/ c = ">"

ReadCompareOperator(c) ==
    CASE c = "=" -> Tok("Eq")
      [] c = "!" -> Tok("NotEq")
      [] c = "<" -> Tok("LessOrEq")
      [] OTHER   -> Tok("GreaterOrEq")

ReadKeyword(literal) ==
    CASE literal = <<"c", "l", "a", "s", "s">>      -> Tok("Class")
      [] literal = <<"r", "e", "t", "u", "r", "n">> -> Tok("Return")
      [] literal = <<"i", "f">>                     -> Tok("If")
      [] literal = <<"e", "l", "s", "e">>           -> Tok("Else")
      [] literal = <<"d", "e", "f">>                -> Tok("Def")
      [] literal = <<"p", "r", "i", "n", "t">>      -> Tok("Print")
      [] literal = <<"o", "r">>                     -> Tok("Or")
      [] literal = <<"N", "o", "n", "e">>           -> Tok("None")
      [] literal = <<"a", "n", "d">>                -> Tok("And")
      [] literal = <<"n", "o", "t">>                -> Tok("Not")
      [] literal = <<"T", "r", "u", "e">>           -> Tok("True")
      [] literal = <<"F", "a", "l", "s", "e">>      -> Tok("False")
      [] OTHER                                      -> TokV("Id", literal)

\* ReadLiteral: the longest prefix of letters, digits and '_'; the first other
\* character is put back.
RECURSIVE ReadLiteral(_)
ReadLiteral(buf) ==
    IF buf # <<>> /\ (isdigit(Head(buf)) \/ isalpha(Head(buf)) \/ Head(buf) = "_")
    THEN LET r == ReadLiteral(Tail(buf))
         IN  [literal |-> <<Head(buf)>> \o r.literal, rest |-> r.rest]
    ELSE [literal |-> <<>>, rest |-> buf]

\* ReadNumber: operator>> on an int, entered with a digit at the front.
RECURSIVE ReadDigits(_, _)
ReadDigits(buf, acc) ==
    IF buf # <<>> /\ isdigit(Head(buf))
    THEN ReadDigits(Tail(buf), acc * 10 + DigitValue(Head(buf)))
    ELSE [num |-> acc, rest |-> buf]

ReadNumber(buf) == ReadDigits(buf, 0)

\* ReadString: characters up to the closing prefix; an escape consumes the
\* next character.  The loop also ends when the stream is exhausted; closed
\* records which of the two ended it.
RECURSIVE ReadString(_, _)
ReadString(buf, prefix) ==
    IF buf = <<>> THEN [value |-> <<>>, rest |-> <<>>, closed |-> FALSE]
    ELSE LET c == Head(buf) IN
         IF c = prefix THEN [value |-> <<>>, rest |-> Tail(buf), closed |-> TRUE]
         ELSE IF c = "\\"
         THEN LET after == Tail(buf)
                  \* input.get(c) fails at the end of the stream and leaves c = '\\'
                  e == IF after = <<>> THEN "\\" ELSE Head(after)
                  r == ReadString(IF after = <<>> THEN <<>> ELSE Tail(after), prefix)
                  ch == CASE e = "n" -> <<NL>>
                          [] e = "t" -> <<"\t">>
                          [] e = "r" -> <<"\r">>
                          [] e = "\\" -> <<"\\">>
                          [] e = "'" -> <<"'">>
                          [] e = "\"" -> <<"\"">>
                          [] OTHER -> <<>>
              IN  [value |-> ch \o r.value, rest |-> r.rest, closed |-> r.closed]
         ELSE LET r == ReadString(Tail(buf), prefix)
              IN  [value |-> <<c>> \o r.value, rest |-> r.rest, closed |-> r.closed]

\* std::getline(input, line): ok is the stream's state afterwards.
RECURSIVE TakeLine(_)
TakeLine(buf) ==
    IF buf = <<>> THEN [line |-> <<>>, rest |-> <<>>, delim |-> FALSE]
    ELSE IF Head(buf) = NL THEN [line |-> <<>>, rest |-> Tail(buf), delim |-> TRUE]
    ELSE LET r == TakeLine(Tail(buf))
         IN  [line |-> <<Head(buf)>> \o r.line, rest |-> r.rest, delim |-> r.delim]

getline(input) ==
    IF input.eof \/ input.fail
    THEN [ok |-> FALSE, line |-> <<>>, input |-> [input EXCEPT !.fail = TRUE]]
    ELSE LET r == TakeLine(input.buf)
             nothing == r.line = <<>> /\ ~r.delim
         IN  [ok |-> ~nothing,
              line |-> r.line,
              input |-> [buf |-> r.rest, eof |-> ~r.delim, fail |-> nothing]]

\* line.find_first_not_of(' '): 0-based position, or -1 for npos.
RECURSIVE find_first_not_of_space(_, _)
find_first_not_of_space(line, at) ==
    IF at >= Len(line) THEN -1
    ELSE IF line[at + 1] # SP THEN at
    ELSE find_first_not_of_space(line, at + 1)

\* Lexer::ReadNextLine: skips empty, blank and comment-only lines.
RECURSIVE ReadNextLine(_, _)
ReadNextLine(input, context) ==
    LET g == getline(input) IN
    IF ~g.ok THEN [line |-> <<>>, input |-> g.input, context |-> context]
    ELSE LET pos == find_first_not_of_space(g.line, 0) IN
         IF g.line # <<>> /\ pos # -1 /\ g.line[pos + 1] # "#"
         THEN [line |-> g.line \o <<NL>>,
               input |-> g.input,
               context |-> [context EXCEPT !.new_indent = pos \div 2]]
         ELSE ReadNextLine(g.input, context)

\* while (c == ' ') line_.get(c): every line ends with '\n', so the loop ends.
RECURSIVE SkipSpaces(_)
SkipSpaces(buf) ==
    IF Len(buf) > 1 /\ Head(buf) = SP THEN SkipSpaces(Tail(buf)) ELSE buf

\* line_.ignore(max, '\n')
RECURSIVE IgnoreLine(_)
IgnoreLine(buf) ==
    IF buf = <<>> THEN <<>>
    ELSE IF Head(buf) = NL THEN Tail(buf)
    ELSE IgnoreLine(Tail(buf))

Result(token, line, input, context, closed) ==
    [token |-> token, line |-> line, input |-> input, context |-> context,
     closed |-> closed]

\* ReadToken, lines 229-235: the pending indentation is emitted first.
IndentStep(line, input, context) ==
    IF context.new_indent > context.indent
    THEN Result(Tok("Indent"), line, input,
                [context EXCEPT !.indent = @ + 1], TRUE)
    ELSE Result(Tok("Dedent"), line, input,
                [context EXCEPT !.indent = @ - 1], TRUE)

\* Mutants of EndOfInput: Eof without unwinding the open blocks, and Eof
\* emitted before the blocks are unwound.
EndOfInput_NoUnwind(line, input, context) ==
    Result(Tok("Eof"), line, input, context, TRUE)

EndOfInput_EofFirst(line, input, context) ==
    Result(Tok("Eof"), line, input, [context EXCEPT !.new_indent = 0], TRUE)

\* ReadToken, lines 241-247: the input is exhausted.
EndOfInput(line, input, context) ==
    IF context.indent > 0
    THEN Result(Tok("Dedent"), line, input,
                [indent |-> context.indent - 1, new_indent |-> 0], TRUE)
    ELSE Result(Tok("Eof"), line, input, context, TRUE)

\* ReadToken, lines 254-288: one token from a non-empty line_.
LineToken(line, input, context) ==
    LET c0 == Head(line) IN
    IF c0 = NL THEN Result(Tok("Newline"), Tail(line), input, context, TRUE)
    ELSE
    LET buf == SkipSpaces(line)      \* buf starts with c
        c == Head(buf)
        rest == Tail(buf)
    IN  IF c = "#"
        THEN Result(Tok("Newline"), IgnoreLine(rest), input, context, TRUE)
        ELSE IF IsSpecialChar(c) /\ rest # <<>> /\ Head(rest) = "="
        THEN Result(ReadCompareOperator(c), Tail(rest), input, context, TRUE)
        ELSE IF isalpha(c) \/ c = "_"
        THEN LET r == ReadLiteral(buf)
             IN  Result(ReadKeyword(r.literal), r.rest, input, context, TRUE)
        ELSE IF c = "\"" \/ c = "'"
        THEN LET r == ReadString(rest, c)
             IN  Result(TokV("String", r.value), r.rest, input, context, r.closed)
        ELSE IF isdigit(c)
        THEN LET r == ReadNumber(buf)
             IN  Result(TokN(r.num), r.rest, input, context, TRUE)
        ELSE Result(TokV("Char", <<c>>), rest, input, context, TRUE)

\* Lexer::ReadToken
RECURSIVE ReadToken(_, _, _)
ReadToken(line, input, context) ==
    IF context.new_indent # context.indent
    THEN IndentStep(line, input, context)
    ELSE IF line = <<>>
    THEN IF input.eof
         THEN EndOfInput(line, input, context)
         ELSE LET n == ReadNextLine(input, context)
              IN  ReadToken(n.line, n.input, n.context)
    ELSE LineToken(line, input, context)

(***************************************************************************)
(*                        RUNTIME OBJECT MODEL                             *)
(***************************************************************************)

\* Bounds of the evaluator model.
MaxInstances == 2    \* ClassInstance objects created
MaxOut == 1          \* lines written to the output stream

\* ObjectHolder: None (an empty holder), or a holder of a Number, String,
\* Bool, Class or ClassInstance.  n is the Number, the Bool (0/1), the Class
\* (its index in ClassTable) or the ClassInstance (its index in heap); s is
\* the String; own tells whether the holder shares the ownership of its object
\* (ObjectHolder::Own and its copies) or only points to it.
Val(t, n, s) == [t |-> t, n |-> n, s |-> s, own |-> TRUE]
None == Val("None", 0, <<>>)
Number(n) == Val("Number", n, <<>>)
String(s) == Val("String", 0, s)
Bool(b) == Val("Bool", IF b THEN 1 ELSE 0, <<>>)
Class(c) == Val("Class", c, <<>>)
Instance(id) == Val("ClassInstance", id, <<>>)

\* ObjectHolder::Share: a holder of the same object whose deleter does nothing.
Share(object) == [object EXCEPT !.own = FALSE]

\* The value of a Number is an int: 32 bits, two's complement.
INT_MAX == 2147483647
INT_MIN == (-INT_MAX) - 1

\* Closure = std::unordered_map<std::string, ObjectHolder>: a name that is not
\* a key maps to Unbound.
Names == {"self", "p", "q", "o", "v", "m", "x", "i", "j",
          "none", "zero", "two", "seven", "m7", "m2", "max", "min", "s", "e", "t",
          "Base", "Derived", "Plain"}
Unbound == Val("Unbound", 0, <<>>)
EmptyClosure == [n \in Names |-> Unbound]
count(cl, name) == IF cl[name] = Unbound THEN 0 ELSE 1

\* ---- the statement nodes (their constructors) ----
Assignment(var, rv) == [node |-> "Assignment", var |-> var, rv |-> rv]
VariableValue(dotted_ids) == [node |-> "VariableValue", dotted_ids |-> dotted_ids]
Var(name) == VariableValue(<<name>>)
PrintStmt(args) == [node |-> "Print", args |-> args]
MethodCall(object, method, args) ==
    [node |-> "MethodCall", object |-> object, method |-> method, args |-> args]
BinaryOperation(op, lhs, rhs) == [node |-> op, lhs |-> lhs, rhs |-> rhs]
Compound(statements) == [node |-> "Compound", statements |-> statements]
Return(statement) == [node |-> "Return", statement |-> statement]
ClassDefinition(cls) == [node |-> "ClassDefinition", cls |-> cls]
FieldAssignment(object, field_name, rv) ==
    [node |-> "FieldAssignment", object |-> object, field_name |-> field_name,
     rv |-> rv]
IfElse(condition, if_body, else_body) ==
    [node |-> "IfElse", condition |-> condition, if_body |-> if_body,
     else_body |-> else_body, has_else |-> TRUE]
IfOnly(condition, if_body) ==
    [node |-> "IfElse", condition |-> condition, if_body |-> if_body,
     else_body |-> Compound(<<>>), has_else |-> FALSE]
NewInstance(class, args) == [node |-> "NewInstance", class |-> class, args |-> args]
MethodBody(body) == [node |-> "MethodBody", body |-> body]

\* ---- the classes of the programs executed ----
Method(name, formal_params, body) ==
    [name |-> name, formal_params |-> formal_params, body |-> body]
ClassDecl(name, methods, parent) ==
    [name |-> name, methods |-> methods, parent |-> parent]

BASE == 1
DERIVED == 2
PLAIN == 3
CELL == 4

\* class Base:
\*   def f(p): return p
\*   def ret(): return self; m = self
\*   def __add__(o): m = o; return o
\*   def __str__(): return self.v
\* class Derived(Base):
\*   def f(): x = self
\*   def f(p, q): return q
\*   def h(p, q): x = p; class Plain; if p: return q   m = q
\* class Plain:
\*   def __init__(v): self.v = v
\*   def __add__(p, q): return p
\* class Cell:
\*   def __init__(p): self.v = p
\*   def set(p): self.v = p
\*   def me(): return self
\*   def same(p): return p
ClassTable == <<
    ClassDecl("Base", <<
        Method("f", <<"p">>, MethodBody(Return(Var("p")))),
        Method("ret", <<>>, MethodBody(Compound(<<
            Return(Var("self")),
            Assignment("m", Var("self"))>>))),
        Method("__add__", <<"o">>, MethodBody(Compound(<<
            Assignment("m", Var("o")),
            Return(Var("o"))>>))),
        Method("__str__", <<>>, MethodBody(Return(VariableValue(<<"self", "v">>))))
      >>, 0),
    ClassDecl("Derived", <<
        Method("f", <<>>, MethodBody(Assignment("x", Var("self")))),
        Method("f", <<"p", "q">>, MethodBody(Return(Var("q")))),
        Method("h", <<"p", "q">>, MethodBody(Compound(<<
            Assignment("x", Var("p")),
            ClassDefinition(PLAIN),
            IfOnly(Var("p"), Return(Var("q"))),
            Assignment("m", Var("q"))>>)))
      >>, BASE),
    ClassDecl("Plain", <<
        Method("__init__", <<"v">>,
               MethodBody(FieldAssignment(Var("self"), "v", Var("v")))),
        Method("__add__", <<"p", "q">>, MethodBody(Return(Var("p"))))
      >>, 0),
    ClassDecl("Cell", <<
        Method("__init__", <<"p">>,
               MethodBody(FieldAssignment(Var("self"), "v", Var("p")))),
        Method("set", <<"p">>,
               MethodBody(FieldAssignment(Var("self"), "v", Var("p")))),
        Method("me", <<>>, MethodBody(Return(Var("self")))),
        Method("same", <<"p">>, MethodBody(Return(Var("p"))))
      >>, 0)
>>

ADD_METHOD == "__add__"
INIT_METHOD == "__init__"

\* The world an Execute() call works on besides its closure: the instances,
\* the output stream, and a history of what was executed.
World(h, o, l) == [heap |-> h, out |-> o, log |-> l]
Event(ev, name, val, cl, cls, arity) ==
    [ev |-> ev, name |-> name, val |-> val, closure |-> cl, cls |-> cls,
     arity |-> arity]
Logged(w, e) == [w EXCEPT !.log = Append(@, e)]

\* The outcome of Execute(): a value, a std::runtime_error, a ReturnException
\* in flight, or a null ObjectHolder dereferenced.
Value(v, cl, w) ==
    [kind |-> "value", val |-> v, err |-> "", closure |-> cl, w |-> w]
Throw(what, cl, w) ==
    [kind |-> "error", val |-> None, err |-> what, closure |-> cl, w |-> w]
ReturnException(v, cl, w) ==
    [kind |-> "return", val |-> v, err |-> "", closure |-> cl, w |-> w]
NullDereference(cl, w) ==
    [kind |-> "undefined", val |-> None, err |-> "", closure |-> cl, w |-> w]
\* An instance is destroyed when the last holder that owns it goes; a holder
\* that only points to it dangles from then on, and using the object through
\* it is undefined.
Freed(object, w) == object.t = "ClassInstance" /\ ~w.heap[object.n].live
UseAfterFree(cl, w) ==
    [kind |-> "undefined", val |-> None, err |-> "", closure |-> cl, w |-> w]
\* Signed overflow of an int operation is undefined as well: the outcome is
\* left open.
SignedOverflow(cl, w) ==
    [kind |-> "undefined", val |-> None, err |-> "", closure |-> cl, w |-> w]
\* An outcome other than a value leaves the statement that produced it at once.
Propagate(r, cl) == [r EXCEPT !.closure = cl]

\* runtime::IsTrue
IsTrue(object) ==
    IF object.t = "Number" THEN object.n # 0
    ELSE IF object.t = "Bool" THEN object.n = 1
    ELSE IF object.t = "String" THEN object.s # <<>>
    ELSE FALSE

\* Class::GetMethod: the first method of that name among the class's own, in
\* declaration order, else the parent's; [found, cls, idx] locates it.
RECURSIVE FindMethod(_, _, _)
FindMethod(methods, name, k) ==
    IF k > Len(methods) THEN 0
    ELSE IF methods[k].name = name THEN k
    ELSE FindMethod(methods, name, k + 1)

\* Mutant of GetMethod: the parent's methods are searched before the class's own.
RECURSIVE GetMethod_ParentFirst(_, _)
GetMethod_ParentFirst(c, name) ==
    LET up == IF ClassTable[c].parent # 0
              THEN GetMethod_ParentFirst(ClassTable[c].parent, name)
              ELSE [found |-> FALSE, cls |-> 0, idx |-> 0]
        it == FindMethod(ClassTable[c].methods, name, 1)
    IN  IF up.found THEN up
        ELSE IF it # 0 THEN [found |-> TRUE, cls |-> c, idx |-> it]
        ELSE [found |-> FALSE, cls |-> 0, idx |-> 0]

RECURSIVE GetMethod(_, _)
GetMethod(c, name) ==
    LET it == FindMethod(ClassTable[c].methods, name, 1) IN
    IF it # 0 THEN [found |-> TRUE, cls |-> c, idx |-> it]
    ELSE IF ClassTable[c].parent # 0 THEN GetMethod(ClassTable[c].parent, name)
    ELSE [found |-> FALSE, cls |-> 0, idx |-> 0]

MethodAt(m) == ClassTable[m.cls].methods[m.idx]

\* ClassInstance::HasMethod
HasMethod(c, method, argument_count) ==
    LET m == GetMethod(c, method) IN
    IF m.found THEN Len(MethodAt(m).formal_params) = argument_count
    ELSE FALSE

\* The decimal form of an int, as operator<< writes it.
RECURSIVE DecimalDigits(_)
DecimalDigits(n) ==
    LET d == <<SubSeq(<<"0", "1", "2", "3", "4", "5", "6", "7", "8", "9">>,
                      (n % 10) + 1, (n % 10) + 1)[1]>>
    IN  IF n < 10 THEN d ELSE DecimalDigits(n \div 10) \o d

ToDecimal(n) == IF n < 0 THEN <<"-">> \o DecimalDigits(-n) ELSE DecimalDigits(n)

(***************************************************************************)
(*                          STATEMENT TREE                                 *)
(***************************************************************************)

RECURSIVE Execute(_, _, _)
RECURSIVE ExecuteAll(_, _, _, _)
RECURSIVE ExecuteRest(_, _, _)
RECURSIVE Call(_, _, _, _)
RECURSIVE CallMethod(_, _, _, _, _)
RECURSIVE PrintObject(_, _)
RECURSIVE PrintResult(_)
RECURSIVE PrintArgs(_, _, _, _)
RECURSIVE PrintArg(_, _, _)
RECURSIVE PrintText(_, _, _, _)
RECURSIVE GetVarByNameRange(_, _, _, _)
RECURSIVE Compound_Execute(_, _, _, _)
RECURSIVE Compound_Next(_, _, _)
RECURSIVE Assignment_Execute(_, _, _)
RECURSIVE Print_Execute(_, _, _)
RECURSIVE MethodCall_Execute(_, _, _)
RECURSIVE MethodCall_Object(_, _)
RECURSIVE MethodCall_Call(_, _, _)
RECURSIVE Operands(_, _, _)
RECURSIVE Operands_Rhs(_, _)
RECURSIVE Add_Execute(_, _, _)
RECURSIVE Add_Operands(_)
RECURSIVE Sub_Execute(_, _, _)
RECURSIVE Mult_Execute(_, _, _)
RECURSIVE Div_Execute(_, _, _)
RECURSIVE Return_Execute(_, _, _)
RECURSIVE FieldAssignment_Execute(_, _, _)
RECURSIVE FieldAssignment_Rv(_, _)
RECURSIVE IfElse_Execute(_, _, _)
RECURSIVE IfElse_Branch(_, _)
RECURSIVE NewInstance_Execute(_, _, _)
RECURSIVE NewInstance_Init(_, _)
RECURSIVE MethodBody_Execute(_, _, _)
RECURSIVE Or_Execute(_, _, _)
RECURSIVE Or_Rhs(_, _)
RECURSIVE And_Execute(_, _, _)
RECURSIVE And_Rhs(_, _)

\* for (auto& arg : args) vector.push_back(arg->Execute(closure, context)):
\* the arguments from the k-th on, left to right; vals are their values.
PushFront(v, rest) ==
    [kind |-> rest.kind, vals |-> <<v>> \o rest.vals, res |-> rest.res]
ExecuteAll(args, k, cl, w) ==
    IF k > Len(args)
    THEN [kind |-> "value", vals |-> <<>>, res |-> Value(None, cl, w)]
    ELSE ExecuteRest(args, k, Execute(args[k], cl, w))
\* r is the outcome of the k-th argument.
ExecuteRest(args, k, r) ==
    IF r.kind # "value" THEN [kind |-> r.kind, vals |-> <<>>, res |-> r]
    ELSE PushFront(r.val, ExecuteAll(args, k + 1, r.closure, r.w))

\* closure[param_name] = actual_args[i], for i = 0 .. actual_args.size() - 1
RECURSIVE BindParams(_, _, _, _)
BindParams(cl, formal_params, actual_args, k) ==
    IF k > Len(actual_args) THEN cl
    ELSE BindParams([cl EXCEPT ![formal_params[k]] = actual_args[k]],
                    formal_params, actual_args, k + 1)

\* The body of class_method executed with the closure Call has filled.
ExecuteMethod(id, method, class_method, cl, w) ==
    Execute(MethodAt(class_method).body, cl,
            Logged(w, Event("enter", method, Instance(id), cl, class_method.cls,
                            Len(MethodAt(class_method).formal_params))))

\* ClassInstance::Call once HasMethod has held: class_method is what
\* cls_.GetMethod(method) returns.
CallMethod(id, method, class_method, actual_args, w) ==
    ExecuteMethod(id, method, class_method,
                  BindParams([EmptyClosure EXCEPT !["self"] = Share(Instance(id))],
                             MethodAt(class_method).formal_params, actual_args, 1),
                  w)

\* ClassInstance::Call on the instance heap[id].  The closure of the outcome
\* is the method's own, which the caller drops.
Call(id, method, actual_args, w) ==
    IF HasMethod(w.heap[id].cls, method, Len(actual_args))
    THEN CallMethod(id, method, GetMethod(w.heap[id].cls, method), actual_args, w)
    ELSE Throw("Method has not found", EmptyClosure, w)

\* closure[var_] = the value of rv_; r is the outcome of rv_.
Assign(var, r) ==
    IF r.kind # "value" THEN r
    ELSE Value(r.val, [r.closure EXCEPT ![var] = r.val],
               Logged(r.w, Event("assign", var, r.val, EmptyClosure, 0, 0)))

\* Assignment::Execute
Assignment_Execute(node, cl, w) == Assign(node.var, Execute(node.rv, cl, w))

\* VariableValue::GetVarByName
GetVarByName(cl, name, w) ==
    IF count(cl, name) = 0 THEN Throw("Name is not defined", cl, w)
    ELSE Value(cl[name], cl, w)

\* VariableValue::GetVarByNameRange: each further id is looked up in the
\* fields of the instance reached so far.
GetVarByNameRange(ids, k, object, w) ==
    IF k > Len(ids) THEN Value(object, EmptyClosure, w)
    ELSE IF Freed(object, w) THEN UseAfterFree(EmptyClosure, w)
    ELSE IF object.t # "ClassInstance"
    THEN Throw("Not a class instance", EmptyClosure, w)
    ELSE IF count(w.heap[object.n].fields, ids[k]) = 0
    THEN GetVarByName(w.heap[object.n].fields, ids[k], w)
    ELSE GetVarByNameRange(ids, k + 1, w.heap[object.n].fields[ids[k]], w)

\* VariableValue::Execute
VariableValue_Execute(node, cl, w) ==
    IF count(cl, node.dotted_ids[1]) = 0
    THEN GetVarByName(cl, node.dotted_ids[1], w)
    ELSE Propagate(GetVarByNameRange(node.dotted_ids, 2, cl[node.dotted_ids[1]], w),
                   cl)

\* The characters an object's Print writes, or the outcome that interrupts
\* the writing.
Printed(text, w) ==
    [kind |-> "value", text |-> text, res |-> Value(None, EmptyClosure, w)]
NotPrinted(r) == [kind |-> r.kind, text |-> <<>>, res |-> r]

\* Object::Print for each kind of object.
PrintObject(object, w) ==
    CASE object.t = "Number" -> Printed(ToDecimal(object.n), w)
      [] object.t = "String" -> Printed(object.s, w)
      [] object.t = "Bool" ->
            Printed(IF object.n = 1 THEN <<"T", "r", "u", "e">>
                    ELSE <<"F", "a", "l", "s", "e">>, w)
      [] object.t = "Class" ->
            Printed(<<"C", "l", "a", "s", "s", " ", ClassTable[object.n].name>>, w)
      [] OTHER ->
            IF Freed(object, w) THEN NotPrinted(UseAfterFree(EmptyClosure, w))
            ELSE IF HasMethod(w.heap[object.n].cls, "__str__", 0)
            THEN PrintResult(Call(object.n, "__str__", <<>>, w))
            ELSE Printed(<<"@">> \o ToDecimal(object.n), w)
\* Call("__str__", {}, context)->Print(os, context); r is the call's outcome.
PrintResult(r) ==
    IF r.kind # "value" THEN NotPrinted(r)
    ELSE IF r.val = None THEN NotPrinted(NullDereference(EmptyClosure, r.w))
    ELSE PrintObject(r.val, r.w)

\* The loop of Print::Execute from the k-th argument on.
PrintArgs(args, k, cl, w) ==
    IF k > Len(args) THEN Value(None, cl, w)
    ELSE PrintArg(args, k,
                  Execute(args[k], cl,
                          [w EXCEPT !.out = @ \o (IF k > 1 THEN <<" ">> ELSE <<>>)]))
\* r is the outcome of the k-th argument.
PrintArg(args, k, r) ==
    IF r.kind # "value" THEN r
    ELSE IF r.val = None
    THEN PrintArgs(args, k + 1, r.closure,
                   [r.w EXCEPT !.out = @ \o <<"N", "o", "n", "e">>])
    ELSE PrintText(args, k, r.closure, PrintObject(r.val, r.w))
\* p is what the k-th argument's Print has written.
PrintText(args, k, cl, p) ==
    IF p.kind # "value" THEN Propagate(p.res, cl)
    ELSE PrintArgs(args, k + 1, cl, [p.res.w EXCEPT !.out = @ \o p.text])

\* os << endl; r is the outcome of the loop.
PrintEndl(r) ==
    IF r.kind # "value" THEN r
    ELSE Value(None, r.closure,
               Logged([r.w EXCEPT !.out = @ \o <<NL>>],
                      Event("print", "", None, EmptyClosure, 0, 0)))

\* Print::Execute
Print_Execute(node, cl, w) == PrintEndl(PrintArgs(node.args, 1, cl, w))

\* Mutant of MethodCall_Call: the names the method body has bound are copied
\* into the caller's closure.
MethodCall_SharedClosure(node, vals, object) ==
    IF object.kind # "value" THEN object
    ELSE IF object.val.t # "ClassInstance"
    THEN NullDereference(object.closure, object.w)
    ELSE IF Freed(object.val, object.w) THEN UseAfterFree(object.closure, object.w)
    ELSE [Call(object.val.n, node.method, vals, object.w) EXCEPT
            !.closure = [n \in Names |->
                            IF @[n] # Unbound /\ n # "self" THEN @[n]
                            ELSE object.closure[n]]]

\* ....TryAs<runtime::ClassInstance>()->Call(method_, arguments, context);
\* object is the outcome of object_, vals are the arguments.
MethodCall_Call(node, vals, object) ==
    IF object.kind # "value" THEN object
    ELSE IF object.val.t # "ClassInstance"
    THEN NullDereference(object.closure, object.w)
    ELSE IF Freed(object.val, object.w) THEN UseAfterFree(object.closure, object.w)
    ELSE Propagate(Call(object.val.n, node.method, vals, object.w), object.closure)

\* object_->Execute(closure, context), after the loop over args_.
MethodCall_Object(node, arguments) ==
    IF arguments.kind # "value" THEN arguments.res
    ELSE MethodCall_Call(node, arguments.vals,
                         Execute(node.object, arguments.res.closure,
                                 arguments.res.w))

\* MethodCall::Execute
MethodCall_Execute(node, cl, w) ==
    MethodCall_Object(node, ExecuteAll(node.args, 1, cl, w))

\* The quotient of the built-in operator/ on ints, truncated toward zero; the
\* intermediate values stay within an int.
RECURSIVE IntDivide(_, _)
IntDivide(a, b) ==
    IF b = 0 THEN 0
    ELSE IF b > 0
    THEN IF a < 0 /\ a % b # 0 THEN (a \div b) + 1 ELSE a \div b
    ELSE IF b = INT_MIN THEN (IF a = INT_MIN THEN 1 ELSE 0)
    ELSE IF a = INT_MIN /\ b = -1 THEN INT_MIN
    ELSE -IntDivide(a, -b)

\* Whether the int operation leaves the range INT_MIN .. INT_MAX.
AddOverflows(a, b) ==
    \/ b > 0 /\ a > INT_MAX - b
    \/ b < 0 /\ a < INT_MIN - b
SubOverflows(a, b) ==
    \/ b > 0 /\ a < INT_MIN + b
    \/ b < 0 /\ a > INT_MAX + b
MultOverflows(a, b) ==
    IF a = 0 \/ b = 0 THEN FALSE
    ELSE IF a = -1 THEN b = INT_MIN
    ELSE IF b = -1 THEN a = INT_MIN
    ELSE IF a > 0 /\ b > 0 THEN a > INT_MAX \div b
    ELSE IF a > 0 THEN b < IntDivide(INT_MIN, a)
    ELSE IF b > 0 THEN a < IntDivide(INT_MIN, b)
    ELSE a = INT_MIN \/ b = INT_MIN \/ (-a) > INT_MAX \div (-b)

\* Addition<T>(lhs, rhs): the sum when both operands hold a T.
Addition(T, lhs, rhs) ==
    IF lhs.t = T /\ rhs.t = T
    THEN [has |-> TRUE,
          overflow |-> T = "Number" /\ AddOverflows(lhs.n, rhs.n),
          result |-> IF T = "String" THEN String(lhs.s \o rhs.s)
                     ELSE IF AddOverflows(lhs.n, rhs.n) THEN None
                     ELSE Number(lhs.n + rhs.n)]
    ELSE [has |-> FALSE, overflow |-> FALSE, result |-> None]

\* Both operands of a BinaryOperation, lhs first.
NoOperands(r) == [kind |-> r.kind, lhs |-> None, rhs |-> None, res |-> r]
BothOperands(lhs, rhs) ==
    IF rhs.kind # "value" THEN NoOperands(rhs)
    ELSE [kind |-> "value", lhs |-> lhs, rhs |-> rhs.val, res |-> rhs]
Operands_Rhs(node, lhs) ==
    IF lhs.kind # "value" THEN NoOperands(lhs)
    ELSE BothOperands(lhs.val, Execute(node.rhs, lhs.closure, lhs.w))
Operands(node, cl, w) == Operands_Rhs(node, Execute(node.lhs, cl, w))

\* Add::Execute on the operands o.
Add_Operands(o) ==
    IF o.kind # "value" THEN o.res
    ELSE IF o.lhs # None /\ o.rhs # None
            /\ (Freed(o.lhs, o.res.w) \/ Freed(o.rhs, o.res.w))
    THEN UseAfterFree(o.res.closure, o.res.w)
    ELSE IF o.lhs # None /\ o.rhs # None
    THEN IF Addition("Number", o.lhs, o.rhs).has
         THEN IF Addition("Number", o.lhs, o.rhs).overflow
              THEN SignedOverflow(o.res.closure, o.res.w)
              ELSE Value(Addition("Number", o.lhs, o.rhs).result,
                         o.res.closure, o.res.w)
         ELSE IF Addition("String", o.lhs, o.rhs).has
         THEN Value(Addition("String", o.lhs, o.rhs).result, o.res.closure, o.res.w)
         ELSE IF o.lhs.t = "ClassInstance"
                 /\ HasMethod(o.res.w.heap[o.lhs.n].cls, ADD_METHOD, 1)
         THEN Propagate(Call(o.lhs.n, ADD_METHOD, <<o.rhs>>, o.res.w),
                        o.res.closure)
         ELSE Throw("Unsupported operand type(s) for +", o.res.closure, o.res.w)
    ELSE Throw("Unsupported operand type(s) for +", o.res.closure, o.res.w)

\* Add::Execute
Add_Execute(node, cl, w) == Add_Operands(Operands(node, cl, w))

\* Sub::Execute on the operands o.
Sub_Operands(o) ==
    IF o.kind # "value" THEN o.res
    ELSE IF o.lhs # None /\ o.rhs # None
            /\ (Freed(o.lhs, o.res.w) \/ (o.lhs.t = "Number" /\ Freed(o.rhs, o.res.w)))
    THEN UseAfterFree(o.res.closure, o.res.w)
    ELSE IF o.lhs # None /\ o.rhs # None /\ o.lhs.t = "Number" /\ o.rhs.t = "Number"
    THEN IF SubOverflows(o.lhs.n, o.rhs.n)
         THEN SignedOverflow(o.res.closure, o.res.w)
         ELSE Value(Number(o.lhs.n - o.rhs.n), o.res.closure, o.res.w)
    ELSE Throw("Unsupported operand type(s) for -", o.res.closure, o.res.w)

\* Sub::Execute
Sub_Execute(node, cl, w) == Sub_Operands(Operands(node, cl, w))

\* Mult::Execute on the operands o.
Mult_Operands(o) ==
    IF o.kind # "value" THEN o.res
    ELSE IF o.lhs # None /\ o.rhs # None
            /\ (Freed(o.lhs, o.res.w) \/ (o.lhs.t = "Number" /\ Freed(o.rhs, o.res.w)))
    THEN UseAfterFree(o.res.closure, o.res.w)
    ELSE IF o.lhs # None /\ o.rhs # None /\ o.lhs.t = "Number" /\ o.rhs.t = "Number"
    THEN IF MultOverflows(o.lhs.n, o.rhs.n)
         THEN SignedOverflow(o.res.closure, o.res.w)
         ELSE Value(Number(o.lhs.n * o.rhs.n), o.res.closure, o.res.w)
    ELSE Throw("Unsupported operand type(s) for *", o.res.closure, o.res.w)

\* Mult::Execute
Mult_Execute(node, cl, w) == Mult_Operands(Operands(node, cl, w))

\* Mutant of Div_Operands: only a zero divisor is rejected.
Div_ZeroOnly(o) ==
    IF o.kind # "value" THEN o.res
    ELSE IF o.lhs # None /\ o.rhs # None
            /\ (Freed(o.lhs, o.res.w) \/ (o.lhs.t = "Number" /\ Freed(o.rhs, o.res.w)))
    THEN UseAfterFree(o.res.closure, o.res.w)
    ELSE IF o.lhs # None /\ o.rhs # None /\ o.lhs.t = "Number" /\ o.rhs.t = "Number"
    THEN IF o.rhs.n # 0
         THEN Value(Number(IntDivide(o.lhs.n, o.rhs.n)), o.res.closure, o.res.w)
         ELSE Throw("Division by zero", o.res.closure, o.res.w)
    ELSE Throw("Unsupported operand type(s) for /", o.res.closure, o.res.w)

\* Div::Execute on the operands o.
Div_Operands(o) ==
    IF o.kind # "value" THEN o.res
    ELSE IF o.lhs # None /\ o.rhs # None
            /\ (Freed(o.lhs, o.res.w) \/ (o.lhs.t = "Number" /\ Freed(o.rhs, o.res.w)))
    THEN UseAfterFree(o.res.closure, o.res.w)
    ELSE IF o.lhs # None /\ o.rhs # None /\ o.lhs.t = "Number" /\ o.rhs.t = "Number"
    THEN IF o.rhs.n > 0
         THEN Value(Number(IntDivide(o.lhs.n, o.rhs.n)), o.res.closure, o.res.w)
         ELSE Throw("Division by zero", o.res.closure, o.res.w)
    ELSE Throw("Unsupported operand type(s) for /", o.res.closure, o.res.w)

\* Div::Execute
Div_Execute(node, cl, w) == Div_Operands(Operands(node, cl, w))

\* Mutant of Compound_Next: a ReturnException of a statement is swallowed and
\* the next statement runs.
Compound_NoUnwind(statements, k, r) ==
    IF r.kind \notin {"value", "return"} THEN r
    ELSE Compound_Execute(statements, k + 1, r.closure, r.w)

\* The loop of Compound::Execute after its k-th statement, whose outcome is r.
Compound_Next(statements, k, r) ==
    IF r.kind # "value" THEN r
    ELSE Compound_Execute(statements, k + 1, r.closure, r.w)

\* Compound::Execute, from the k-th statement on.
Compound_Execute(statements, k, cl, w) ==
    IF k > Len(statements) THEN Value(None, cl, w)
    ELSE Compound_Next(statements, k, Execute(statements[k], cl, w))

\* throw ReturnException(...); r is the outcome of statement_.
Return_Throw(r) ==
    IF r.kind # "value" THEN r
    ELSE ReturnException(r.val, r.closure, r.w)

\* Return::Execute
Return_Execute(node, cl, w) == Return_Throw(Execute(node.statement, cl, w))

\* ClassDefinition::Execute
ClassDefinition_Execute(node, cl, w) ==
    Value(Class(node.cls),
          [cl EXCEPT ![ClassTable[node.cls].name] = Class(node.cls)],
          Logged(w, Event("classdef", ClassTable[node.cls].name, Class(node.cls),
                          EmptyClosure, 0, 0)))

\* instance->Fields()[field_name_] = the value of rv_; object is the value of
\* object_, r the outcome of rv_.
FieldAssignment_Store(node, object, r) ==
    IF r.kind # "value" THEN r
    ELSE IF object.t # "ClassInstance" THEN NullDereference(r.closure, r.w)
    ELSE IF Freed(object, r.w) THEN UseAfterFree(r.closure, r.w)
    ELSE Value(r.val, r.closure,
               Logged([r.w EXCEPT !.heap[object.n].fields[node.field_name] = r.val],
                      Event("setfield", node.field_name, r.val, EmptyClosure, 0, 0)))

\* rv_->Execute(closure, context), after object_.
FieldAssignment_Rv(node, object) ==
    IF object.kind # "value" THEN object
    ELSE FieldAssignment_Store(node, object.val,
                               Execute(node.rv, object.closure, object.w))

\* FieldAssignment::Execute
FieldAssignment_Execute(node, cl, w) ==
    FieldAssignment_Rv(node, Execute(node.object, cl, w))

\* The branch of an IfElse; c is the outcome of condition_.
IfElse_Branch(node, c) ==
    IF c.kind # "value" THEN c
    ELSE IF Freed(c.val, c.w) THEN UseAfterFree(c.closure, c.w)
    ELSE IF IsTrue(c.val) THEN Execute(node.if_body, c.closure, c.w)
    ELSE IF node.has_else THEN Execute(node.else_body, c.closure, c.w)
    ELSE Value(None, c.closure, c.w)

\* IfElse::Execute
IfElse_Execute(node, cl, w) == IfElse_Branch(node, Execute(node.condition, cl, w))

\* ObjectHolder::Own(runtime::ClassInstance{class_})
Allocate(w, class) ==
    [w EXCEPT !.heap = Append(@, [cls |-> class, fields |-> EmptyClosure,
                                  live |-> TRUE])]

\* return object; r is the outcome of Call(INIT_METHOD, ...).
NewInstance_Return(id, cl, r) ==
    IF r.kind # "value" THEN Propagate(r, cl)
    ELSE Value(Instance(id), cl, r.w)

\* instance->Call(INIT_METHOD, params, context); params are the arguments.
NewInstance_Init(id, params) ==
    IF params.kind # "value" THEN params.res
    ELSE NewInstance_Return(id, params.res.closure,
                            Call(id, INIT_METHOD, params.vals, params.res.w))

\* NewInstance::Execute
NewInstance_Execute(node, cl, w) ==
    IF HasMethod(node.class, INIT_METHOD, Len(node.args))
    THEN NewInstance_Init(Len(w.heap) + 1,
                          ExecuteAll(node.args, 1, cl, Allocate(w, node.class)))
    ELSE Value(Instance(Len(w.heap) + 1), cl, Allocate(w, node.class))

\* catch (const Return::ReturnException& e); r is the outcome of body_.
MethodBody_Catch(r) ==
    IF r.kind = "value" THEN Value(None, r.closure, r.w)
    ELSE IF r.kind = "return" THEN Value(r.val, r.closure, r.w)
    ELSE r

\* MethodBody::Execute
MethodBody_Execute(node, cl, w) == MethodBody_Catch(Execute(node.body, cl, w))

\* ObjectHolder::Own(runtime::Bool(...)) of the truth of the right operand,
\* whose outcome is rhs.
OwnBool(rhs) ==
    IF rhs.kind # "value" THEN rhs
    ELSE IF Freed(rhs.val, rhs.w) THEN UseAfterFree(rhs.closure, rhs.w)
    ELSE Value(Bool(IsTrue(rhs.val)), rhs.closure, rhs.w)

\* IsTrue(lhs) || IsTrue(rhs_->Execute(closure, context)); lhs is the outcome
\* of lhs_.
Or_Rhs(node, lhs) ==
    IF lhs.kind # "value" THEN lhs
    ELSE IF Freed(lhs.val, lhs.w) THEN UseAfterFree(lhs.closure, lhs.w)
    ELSE IF IsTrue(lhs.val) THEN Value(Bool(TRUE), lhs.closure, lhs.w)
    ELSE OwnBool(Execute(node.rhs, lhs.closure, lhs.w))

\* Or::Execute
Or_Execute(node, cl, w) == Or_Rhs(node, Execute(node.lhs, cl, w))

\* Mutant of And_Rhs: the right operand is executed whatever the left one is.
BothBool(lhs, rhs) ==
    IF rhs.kind # "value" THEN rhs
    ELSE IF Freed(rhs.val, rhs.w) THEN UseAfterFree(rhs.closure, rhs.w)
    ELSE Value(Bool(IsTrue(lhs) /\ IsTrue(rhs.val)), rhs.closure, rhs.w)
And_Eager(node, lhs) ==
    IF lhs.kind # "value" THEN lhs
    ELSE IF Freed(lhs.val, lhs.w) THEN UseAfterFree(lhs.closure, lhs.w)
    ELSE BothBool(lhs.val, Execute(node.rhs, lhs.closure, lhs.w))

\* IsTrue(lhs) && IsTrue(rhs_->Execute(closure, context)); lhs is the outcome
\* of lhs_.
And_Rhs(node, lhs) ==
    IF lhs.kind # "value" THEN lhs
    ELSE IF Freed(lhs.val, lhs.w) THEN UseAfterFree(lhs.closure, lhs.w)
    ELSE IF IsTrue(lhs.val) THEN OwnBool(Execute(node.rhs, lhs.closure, lhs.w))
    ELSE Value(Bool(FALSE), lhs.closure, lhs.w)

\* And::Execute
And_Execute(node, cl, w) == And_Rhs(node, Execute(node.lhs, cl, w))

\* Statement::Execute: the virtual call.
Execute(node, cl, w) ==
    CASE node.node = "Assignment" -> Assignment_Execute(node, cl, w)
      [] node.node = "VariableValue" -> VariableValue_Execute(node, cl, w)
      [] node.node = "Print" -> Print_Execute(node, cl, w)
      [] node.node = "MethodCall" -> MethodCall_Execute(node, cl, w)
      [] node.node = "Add" -> Add_Execute(node, cl, w)
      [] node.node = "Sub" -> Sub_Execute(node, cl, w)
      [] node.node = "Mult" -> Mult_Execute(node, cl, w)
      [] node.node = "Div" -> Div_Execute(node, cl, w)
      [] node.node = "Compound" -> Compound_Execute(node.statements, 1, cl, w)
      [] node.node = "Return" -> Return_Execute(node, cl, w)
      [] node.node = "ClassDefinition" -> ClassDefinition_Execute(node, cl, w)
      [] node.node = "FieldAssignment" -> FieldAssignment_Execute(node, cl, w)
      [] node.node = "IfElse" -> IfElse_Execute(node, cl, w)
      [] node.node = "NewInstance" -> NewInstance_Execute(node, cl, w)
      [] node.node = "MethodBody" -> MethodBody_Execute(node, cl, w)
      [] node.node = "Or" -> Or_Execute(node, cl, w)
      [] node.node = "And" -> And_Execute(node, cl, w)

Inputs == UNION {[1..n -> Alphabet] : n \in 0..MaxLen}

Hist(r) == [type |-> r.token.type, value |-> r.token.value, num |-> r.token.num,
            closed |-> r.closed]

\* Lexer::Lexer on the input src: the first line is read and the first token
\* produced.
Lexer(src) ==
    LET n == ReadNextLine([buf |-> src, eof |-> FALSE, fail |-> FALSE],
                          [indent |-> 0, new_indent |-> 0])
        r == ReadToken(n.line, n.input, n.context)
    IN  /\ source = src
        /\ input_ = r.input
        /\ line_ = r.line
        /\ context_ = r.context
        /\ current_token_ = r.token
        /\ tokens = <<Hist(r)>>

EofCalls == Cardinality({i \in DOMAIN tokens : tokens[i].type = "Eof"})

\* Lexer::NextToken
NextToken ==
    /\ EofCalls <= MaxEofCalls
    /\ LET r == ReadToken(line_, input_, context_)
       IN  /\ input_' = r.input
           /\ line_' = r.line
           /\ context_' = r.context
           /\ current_token_' = r.token
           /\ tokens' = Append(tokens, Hist(r))
    /\ UNCHANGED source
    /\ UNCHANGED evalvars




(***************************************************************************)
(*                 THE HOST EXECUTING STATEMENTS                           *)
(***************************************************************************)

\* The global closure the host constructs: names for the primitive values
\* the statements below work on.
HostClosure ==
    [n \in Names |->
        CASE n = "none" -> None
          [] n = "zero" -> Number(0)
          [] n = "two" -> Number(2)
          [] n = "seven" -> Number(7)
          [] n = "m7" -> Number(-7)
          [] n = "m2" -> Number(-2)
          [] n = "max" -> Number(INT_MAX)
          [] n = "min" -> Number(INT_MIN)
          [] n = "s" -> String(<<"a", "b">>)
          [] n = "e" -> String(<<>>)
          [] n = "t" -> Bool(TRUE)
          [] OTHER -> Unbound]

NoLast == [op |-> "", idx |-> 0, a |-> "", b |-> "", kind |-> "", val |-> None,
           err |-> "", log |-> <<>>, pre |-> EmptyClosure]

\* i = Class(args), j = Class(args)
NewInstances ==
    <<Assignment("i", NewInstance(BASE, <<>>)),
      Assignment("i", NewInstance(DERIVED, <<>>)),
      Assignment("i", NewInstance(PLAIN, <<>>)),
      Assignment("i", NewInstance(PLAIN, <<Var("two")>>)),
      Assignment("j", NewInstance(BASE, <<>>)),
      Assignment("j", NewInstance(PLAIN, <<Var("seven")>>))>>

\* The operands of the arithmetic statements.
OperandNames == {"none", "zero", "two", "seven", "m7", "m2", "max", "min",
                 "s", "e", "t", "i"}
Operators == {"Add", "Sub", "Mult", "Div"}

\* object.method(args)
CallObjects == <<Var("i"), Assignment("o", Var("i"))>>
CallMethods == <<"f", "h", "ret", "__add__", "g">>
CallArgs ==
    <<<<>>,
      <<Var("two")>>,
      <<Var("zero"), Var("seven")>>,
      <<Var("t"), Var("seven")>>,
      <<Assignment("m", Var("two"))>>,
      <<Assignment("m", Var("two")), Assignment("m", Var("seven"))>>,
      <<PrintStmt(<<Var("t")>>)>> >>
MethodCalls ==
    [k \in 1..(Len(CallObjects) * Len(CallMethods) * Len(CallArgs)) |->
        LET o == ((k - 1) % Len(CallObjects)) + 1
            m == (((k - 1) \div Len(CallObjects)) % Len(CallMethods)) + 1
            a == ((k - 1) \div (Len(CallObjects) * Len(CallMethods))) + 1
        IN  MethodCall(CallObjects[o], CallMethods[m], CallArgs[a])]

\* The bodies of MethodBody: every tree of at most MaxBodySize (up to 5) nodes over
\*   m = two | return two | return seven | i.ret()
\*   | S; S | if t/zero: S else: S | if t/zero: S
MaxBodySize == 4

Mark == Assignment("m", Var("two"))
Atoms == <<Mark, Return(Var("two")), Return(Var("seven")),
           MethodCall(Var("i"), "ret", <<>>)>>
Conditions == <<Var("t"), Var("zero")>>

\* Every pair <<x, y>> of an element of xs and one of ys, as a sequence.
Pairs(xs, ys) ==
    [k \in 1..(Len(xs) * Len(ys)) |->
        <<xs[((k - 1) % Len(xs)) + 1], ys[((k - 1) \div Len(xs)) + 1]>>]

\* if c: S, for every condition c and every S of bs.
Unary(bs) ==
    [k \in 1..(Len(Conditions) * Len(bs)) |->
        IfOnly(Conditions[((k - 1) % Len(Conditions)) + 1],
               bs[((k - 1) \div Len(Conditions)) + 1])]

\* S1; S2 and if c: S1 else: S2, for every condition c and every <<S1, S2>> of ps.
Binary(ps) ==
    [k \in 1..(Len(ps) * (Len(Conditions) + 1)) |->
        LET p == ps[((k - 1) % Len(ps)) + 1]
            c == (k - 1) \div Len(ps)
        IN  IF c = 0 THEN Compound(p) ELSE IfElse(Conditions[c], p[1], p[2])]

Bodies1 == Atoms
Bodies2 == Unary(Bodies1)
Bodies3 == Unary(Bodies2) \o Binary(Pairs(Bodies1, Bodies1))
Bodies4 == Unary(Bodies3)
           \o Binary(Pairs(Bodies1, Bodies2) \o Pairs(Bodies2, Bodies1))
Bodies5 == Unary(Bodies4)
           \o Binary(Pairs(Bodies1, Bodies3) \o Pairs(Bodies2, Bodies2)
                     \o Pairs(Bodies3, Bodies1))

Bodies ==
    (IF MaxBodySize >= 1 THEN Bodies1 ELSE <<>>)
    \o (IF MaxBodySize >= 2 THEN Bodies2 ELSE <<>>)
    \o (IF MaxBodySize >= 3 THEN Bodies3 ELSE <<>>)
    \o (IF MaxBodySize >= 4 THEN Bodies4 ELSE <<>>)
    \o (IF MaxBodySize >= 5 THEN Bodies5 ELSE <<>>)

\* The operands of the logical statements: values of every kind, statements
\* that fail, and statements that write.
LogicOperands ==
    <<Var("none"), Var("zero"), Var("two"), Var("e"), Var("s"), Var("t"),
      Var("i"), ClassDefinition(PLAIN),
      BinaryOperation("And", Var("t"), Var("zero")),
      BinaryOperation("Div", Var("two"), Var("zero")),
      PrintStmt(<<Var("two")>>)>>

\* x = lhs and/or m = rhs, in a program that has bound neither x nor m.
Logicals ==
    [k \in 1..(Len(LogicOperands) * Len(LogicOperands)) |->
        [lhs |-> Assignment("x", LogicOperands[((k - 1) % Len(LogicOperands)) + 1]),
         rhs |-> Assignment("m", LogicOperands[((k - 1) \div Len(LogicOperands)) + 1])]]

\* Statements that create instances of Cell, copy, pass and drop the holders
\* of them, and write and read the field v through those holders.
Shares ==
    <<Assignment("i", NewInstance(CELL, <<Var("two")>>)),
      Assignment("j", NewInstance(CELL, <<Var("seven")>>)),
      Assignment("j", Var("i")),
      Assignment("j", MethodCall(Var("i"), "me", <<>>)),
      Assignment("j", MethodCall(Var("i"), "same", <<Var("i")>>)),
      FieldAssignment(Var("j"), "o", Var("i")),
      Assignment("i", Var("none")),
      Assignment("j", Var("none")),
      FieldAssignment(Var("i"), "v", Var("seven")),
      FieldAssignment(Var("j"), "v", Var("two")),
      MethodCall(Var("i"), "set", <<Var("zero")>>),
      MethodCall(Var("j"), "set", <<Var("seven")>>),
      Assignment("m", VariableValue(<<"i", "v">>)),
      Assignment("m", VariableValue(<<"j", "v">>)),
      Assignment("m", VariableValue(<<"j", "o", "v">>))>>

Host ==
    /\ closure = HostClosure
    /\ heap = <<>>
    /\ out = <<>>
    /\ pc = "idle"
    /\ last = NoLast

Lines(o) == Cardinality({k \in DOMAIN o : o[k] = NL})

\* Whether a holder that owns the instance id is left in the closure cl or in
\* a field of an instance of the set L.
Owned(id, cl, h, L) ==
    \/ \E n \in Names : cl[n] = Instance(id)
    \/ \E k \in L, n \in Names : h[k].fields[n] = Instance(id)

\* The instances of L that are not destroyed: destroying an instance destroys
\* the holders in its fields, which may destroy further instances.
RECURSIVE Survivors(_, _, _)
Survivors(L, cl, h) ==
    IF \A id \in L : Owned(id, cl, h, L) THEN L
    ELSE Survivors({id \in L : Owned(id, cl, h, L)}, cl, h)

\* The heap once the statement has ended and its temporaries, the closures of
\* the methods it has called among them, are gone.
Release(cl, h) ==
    [id \in DOMAIN h |->
        [h[id] EXCEPT !.live = id \in Survivors({k \in DOMAIN h : h[k].live}, cl, h)]]

\* The host keeps the outcome r of the statement it has executed.
Outcome(op, idx, a, b, r) ==
    /\ Len(r.w.heap) <= MaxInstances
    /\ Lines(r.w.out) <= MaxOut
    /\ closure' = r.closure
    /\ heap' = Release(r.closure, r.w.heap)
    /\ out' = r.w.out
    /\ pc' = "done"
    /\ last' = [op |-> op, idx |-> idx, a |-> a, b |-> b, kind |-> r.kind,
                val |-> r.val, err |-> r.err, log |-> r.w.log, pre |-> closure]
    /\ UNCHANGED lexvars

\* The host hands `statement` to Execute() with the global closure.
HostExecute(op, idx, a, b, statement) ==
    Outcome(op, idx, a, b, Execute(statement, closure, World(heap, out, <<>>)))

ExecuteNewInstance ==
    \E k \in DOMAIN NewInstances :
        /\ pc = "idle"
        /\ closure[NewInstances[k].var] = Unbound
        /\ HostExecute("NewInstance", k, "", "", NewInstances[k])

ExecuteArithmetic ==
    \E op \in Operators, a, b \in OperandNames :
        /\ pc = "idle"
        /\ HostExecute(op, 0, a, b, BinaryOperation(op, Var(a), Var(b)))

ExecuteMethodCall ==
    \E k \in DOMAIN MethodCalls :
        /\ pc = "idle"
        /\ HostExecute("MethodCall", k, "", "", MethodCalls[k])

ExecuteMethodBody ==
    \E k \in DOMAIN Bodies :
        /\ pc = "idle"
        /\ HostExecute("MethodBody", k, "", "", MethodBody(Bodies[k]))

ExecuteLogical ==
    \E op \in {"And", "Or"}, k \in DOMAIN Logicals :
        /\ pc = "idle"
        /\ closure["x"] = Unbound
        /\ closure["m"] = Unbound
        /\ HostExecute(op, k, "", "",
                       BinaryOperation(op, Logicals[k].lhs, Logicals[k].rhs))

ExecuteShare ==
    \E k \in DOMAIN Shares :
        /\ pc = "idle"
        /\ HostExecute("Share", k, "", "", Shares[k])

\* The host has looked at the outcome and goes on.
Resume ==
    /\ pc = "done"
    /\ last.kind \in {"value", "error"}
    /\ pc' = "idle"
    /\ last' = NoLast
    /\ UNCHANGED <<closure, heap, out>>
    /\ UNCHANGED lexvars

\* The host executing instantiations, arithmetic and method calls.
EvalNext ==
    \/ ExecuteNewInstance
    \/ ExecuteArithmetic
    \/ ExecuteMethodCall
    \/ Resume

\* The host executing instantiations and method bodies.
BodyNext ==
    \/ ExecuteNewInstance
    \/ ExecuteMethodBody
    \/ Resume

\* The host executing instantiations and logical statements.
LogicNext ==
    \/ ExecuteNewInstance
    \/ ExecuteLogical
    \/ Resume

\* The host executing statements on shared instances.
ShareNext ==
    \/ ExecuteShare
    \/ Resume

(***************************************************************************)
(*                          Specifications                                 *)
(***************************************************************************)

\* The lexer at work; no statement is executed.
LexInit == \E src \in Inputs : Lexer(src) /\ Host

LexNext == NextToken

SpecLexer == LexInit /\ [][LexNext]_vars

\* The host at work on a parsed program; the lexer has read an empty input.
EvalInit == Lexer(<<>>) /\ Host

SpecEval == EvalInit /\ [][EvalNext]_vars

SpecBody == EvalInit /\ [][BodyNext]_vars

SpecLogic == EvalInit /\ [][LogicNext]_vars

SpecShare == EvalInit /\ [][ShareNext]_vars

(***************************************************************************)
(*                      Properties of the lexer                            *)
(***************************************************************************)

CountIn(k, type) == Cardinality({i \in 1..k : tokens[i].type = type})
Count(type) == CountIn(Len(tokens), type)

\* Position i of src starts a logical line: it holds the first non-space
\* character of its line, and that character is not '#'.
SameLine(src, k, i) == \A m \in k..(i - 1) : src[m] # NL
StartsLogicalLine(src, i) ==
    /\ src[i] \notin {SP, NL, "#"}
    /\ \A k \in 1..(i - 1) : SameLine(src, k, i) => src[k] = SP
LogicalLines(src) ==
    Cardinality({i \in DOMAIN src : StartsLogicalLine(src, i)})
IsBlankProgram(src) == LogicalLines(src) = 0
HasQuote(src) == \E i \in DOMAIN src : src[i] \in {"'", "\""}

\* C1: in every prefix of the token stream there are at least as many Indent
\* as Dedent tokens, and when Eof is emitted the two counts are equal.
C1_IndentDedentBalanced ==
    \A k \in DOMAIN tokens :
        /\ CountIn(k, "Indent") >= CountIn(k, "Dedent")
        /\ tokens[k].type = "Eof" => CountIn(k, "Indent") = CountIn(k, "Dedent")

\* A block was opened, closed in mid-stream in front of a further line, and
\* the stream has ended.
C1_Witness ==
    /\ current_token_.type = "Eof"
    /\ Count("Indent") >= 1
    /\ \E i \in DOMAIN tokens :
          /\ tokens[i].type = "Dedent"
          /\ i < Len(tokens)
          /\ tokens[i + 1].type \in {"Id", "Number", "Char", "String"}

\* C2: Eof is absorbing: every token after the first Eof is Eof, the current
\* token is the one produced last, and a program of blank and comment-only
\* lines has Eof as its first token.
C2_EofAbsorbing ==
    /\ \A i, j \in DOMAIN tokens :
          (i < j /\ tokens[i].type = "Eof") => tokens[j].type = "Eof"
    /\ current_token_.type = tokens[Len(tokens)].type
    /\ IsBlankProgram(source) => tokens[1].type = "Eof"

\* NextToken() was called again after Eof had ended a stream that had opened
\* and closed a block.
C2_Witness ==
    /\ Count("Eof") >= 2
    /\ Count("Dedent") >= 1
    /\ current_token_.type = "Eof"

\* C3: once the stream has ended, the Newline tokens are as many as the
\* logical lines of the input.  Stated for inputs without a quote, where no
\* string literal can swallow a line break.
C3_OneNewlinePerLogicalLine ==
    (current_token_.type = "Eof" /\ ~HasQuote(source))
        => Count("Newline") = LogicalLines(source)

\* C4: no String token is produced for a literal whose closing quote is
\* missing.
C4_UnterminatedStringRejected ==
    \A i \in DOMAIN tokens : tokens[i].type = "String" => tokens[i].closed


(***************************************************************************)
(*                     Properties of the evaluator                         *)
(***************************************************************************)

Done(op) == pc = "done" /\ last.op = op
Events(ev) == {k \in DOMAIN last.log : last.log[k].ev = ev}
Failed == last.kind = "error"
Yielded(v) == last.kind = "value" /\ last.val = v

\* ---- method calls, read off the statement and the closure before it ----
TheCall == MethodCalls[last.idx]
NameOf(e) == IF e.node = "Assignment" THEN e.rv.dotted_ids[1] ELSE e.dotted_ids[1]
ValueIn(e, cl) == IF e.node = "Print" THEN None ELSE cl[NameOf(e)]
Receiver == ValueIn(TheCall.object, last.pre)
Actuals == [k \in DOMAIN TheCall.args |-> ValueIn(TheCall.args[k], last.pre)]
ReceiverClass == heap[Receiver.n].cls
CallOnInstance == Done("MethodCall") /\ Receiver.t = "ClassInstance"

\* The methods an instance of class c can reach, nearest first: the class's
\* own in declaration order, then its parent's, and so on up the chain.
RECURSIVE Chain(_)
Chain(c) ==
    IF c = 0 THEN <<>>
    ELSE [k \in DOMAIN ClassTable[c].methods |-> [cls |-> c, idx |-> k]]
         \o Chain(ClassTable[c].parent)
Params(m) == ClassTable[m.cls].methods[m.idx].formal_params
Named(c, name) ==
    {k \in DOMAIN Chain(c) : ClassTable[Chain(c)[k].cls].methods[Chain(c)[k].idx].name = name}
FirstNamed(c, name) ==
    Chain(c)[CHOOSE k \in Named(c, name) : \A j \in Named(c, name) : k <= j]
Exposes(c, name, arity) ==
    Named(c, name) # {} /\ Len(Params(FirstNamed(c, name))) = arity
NotFound == Failed /\ last.err = "Method has not found"
Entered(cls, name, arity) ==
    \E k \in Events("enter") :
        /\ last.log[k].cls = cls
        /\ last.log[k].name = name
        /\ last.log[k].arity = arity

\* C5 as stated: a call on an instance fails if and only if no method of the
\* receiver's class chain has both that name and as many formal parameters as
\* there are arguments; otherwise a method of that name and parameter count
\* is executed.
C5_FailsIffNoMethodOfThatArity ==
    CallOnInstance =>
        LET matching == {k \in Named(ReceiverClass, TheCall.method) :
                            Len(Params(Chain(ReceiverClass)[k])) = Len(TheCall.args)}
        IN  IF matching = {} THEN Failed
            ELSE /\ ~Failed
                 /\ \E k \in matching :
                        Entered(Chain(ReceiverClass)[k].cls, TheCall.method,
                                Len(TheCall.args))

\* C5, amended: a call on an instance fails with "method not found" if and
\* only if the first method of that name along the receiver's class chain (the
\* class's own methods in declaration order, then each ancestor's) does not
\* exist or has a number of formal parameters other than the number of
\* arguments; otherwise exactly that first method is executed.
C5_FailsIffFirstNamedMismatch ==
    CallOnInstance =>
        IF Exposes(ReceiverClass, TheCall.method, Len(TheCall.args))
        THEN /\ ~Failed
             /\ Cardinality(Events("enter")) = 1
             /\ Entered(FirstNamed(ReceiverClass, TheCall.method).cls,
                        TheCall.method, Len(TheCall.args))
        ELSE NotFound /\ Events("enter") = {}

\* A Derived instance is called with f and one argument: Derived.f() hides
\* Base.f(p), and the call has failed.
C5_Witness ==
    /\ CallOnInstance
    /\ ReceiverClass = DERIVED
    /\ TheCall.method = "f"
    /\ Len(TheCall.args) = 1
    /\ NotFound

\* ---- method bodies ----
TheBody == Bodies[last.idx]

\* The atoms of a body in the order control reaches them when no Return cuts
\* the execution short: the branch of an IfElse is the one its condition (a
\* name of closure cl) selects.
RECURSIVE Flat(_, _)
RECURSIVE FlatAll(_, _, _)
FlatAll(statements, k, cl) ==
    IF k > Len(statements) THEN <<>>
    ELSE Flat(statements[k], cl) \o FlatAll(statements, k + 1, cl)
Flat(node, cl) ==
    CASE node.node = "Compound" -> FlatAll(node.statements, 1, cl)
      [] node.node = "IfElse" ->
            IF IsTrue(cl[NameOf(node.condition)]) THEN Flat(node.if_body, cl)
            ELSE IF node.has_else THEN Flat(node.else_body, cl)
            ELSE <<>>
      [] node.node = "Return" -> <<[ev |-> "return", val |-> cl[NameOf(node.statement)]]>>
      [] node.node = "Assignment" -> <<[ev |-> "assign", val |-> None]>>
      [] node.node = "MethodCall" -> <<[ev |-> "enter", val |-> None]>>

\* The position of the first Return of a trace, or one past its end.
FirstReturn(tr) ==
    IF \E k \in DOMAIN tr : tr[k].ev = "return"
    THEN CHOOSE k \in DOMAIN tr :
            /\ tr[k].ev = "return"
            /\ \A j \in 1..(k - 1) : tr[j].ev # "return"
    ELSE Len(tr) + 1
BeforeReturn(tr) == SubSeq(tr, 1, FirstReturn(tr) - 1)
Kinds(es) == [k \in DOMAIN es |-> es[k].ev]

\* i.ret() can be called: i is an instance of a class that exposes ret().
RetCallable ==
    /\ last.pre["i"].t = "ClassInstance"
    /\ Exposes(heap[last.pre["i"].n].cls, "ret", 0)

\* C6: of the statements of a method body, at any nesting depth of Compound
\* and IfElse, exactly those in front of the first Return reached are
\* executed, in order; the MethodBody yields the value of that Return's
\* expression, or None when no Return is reached; and the Return of a method
\* called from the body ends that method only, the body goes on after the call.
C6_NonLocalReturn ==
    (Done("MethodBody")
       /\ (RetCallable \/ "enter" \notin {BeforeReturn(Flat(TheBody, last.pre))[k].ev :
                              k \in DOMAIN BeforeReturn(Flat(TheBody, last.pre))}))
    => LET tr == Flat(TheBody, last.pre) IN
       /\ last.kind = "value"
       /\ Kinds(last.log) = Kinds(BeforeReturn(tr))
       /\ last.val = IF FirstReturn(tr) <= Len(tr) THEN tr[FirstReturn(tr)].val
                     ELSE None

\* The body is "if t: return ...", nested in a Compound and followed by an
\* assignment; the Return's value has been yielded and nothing else has run.
C6_Witness ==
    /\ Done("MethodBody")
    /\ TheBody.node = "Compound"
    /\ TheBody.statements[1].node = "IfElse"
    /\ NameOf(TheBody.statements[1].condition) = "t"
    /\ TheBody.statements[1].if_body.node = "Return"
    /\ TheBody.statements[2].node = "Assignment"
    /\ Yielded(last.pre[NameOf(TheBody.statements[1].if_body.statement)])
    /\ last.log = <<>>
    /\ last.val # None

\* ---- arithmetic ----
Arithmetic(op) ==
    /\ Done(op)
    /\ last.pre[last.a] # Unbound
    /\ last.pre[last.b] # Unbound
Lhs == last.pre[last.a]
Rhs == last.pre[last.b]
BothNumbers == Lhs.t = "Number" /\ Rhs.t = "Number"

\* C7 as stated: Add returns the sum of two Numbers (where an int holds it)
\* and the concatenation of two Strings; else, when the left operand is an
\* instance whose class chain exposes __add__ with one parameter, it calls
\* that method with the right operand, whatever the right operand is, None
\* included, and returns the call's result; in every other case it fails.
C7_AddCallsMethodForEveryRightOperand ==
    Arithmetic("Add") =>
        IF BothNumbers
        THEN AddOverflows(Lhs.n, Rhs.n) \/ Yielded(Number(Lhs.n + Rhs.n))
        ELSE IF Lhs.t = "String" /\ Rhs.t = "String"
        THEN Yielded(String(Lhs.s \o Rhs.s))
        ELSE IF Lhs.t = "ClassInstance" /\ Exposes(heap[Lhs.n].cls, ADD_METHOD, 1)
        THEN /\ ~Failed
             /\ \E k \in Events("enter") :
                    /\ last.log[k].name = ADD_METHOD
                    /\ last.log[k].val = Lhs
                    /\ last.log[k].closure[
                          Params(FirstNamed(heap[Lhs.n].cls, ADD_METHOD))[1]] = Rhs
        ELSE Failed

\* q is the quotient of a by b > 0 truncated toward zero: the remainder is
\* smaller than b and has the sign of a.
IsTruncatedQuotient(a, b, q) ==
    LET r == a - (q * b) IN
    /\ a >= 0 => (0 <= r /\ r < b)
    /\ a <= 0 => (-b < r /\ r <= 0)

\* C8: on two Numbers, Div by a positive right operand yields the quotient
\* truncated toward zero and Div by a right operand <= 0 fails with "Division
\* by zero"; Sub and Mult of two Numbers raise no error and yield the
\* difference and the product whenever an int holds them; Sub, Mult and Div
\* fail when an operand is not a Number, None included.
C8_SubMultDiv ==
    \A op \in {"Sub", "Mult", "Div"} :
        Arithmetic(op) =>
            IF ~BothNumbers THEN Failed
            ELSE CASE op = "Sub" ->
                        /\ ~Failed
                        /\ ~SubOverflows(Lhs.n, Rhs.n) => Yielded(Number(Lhs.n - Rhs.n))
                   [] op = "Mult" ->
                        /\ ~Failed
                        /\ ~MultOverflows(Lhs.n, Rhs.n) => Yielded(Number(Lhs.n * Rhs.n))
                   [] op = "Div" ->
                        IF Rhs.n > 0
                        THEN /\ last.kind = "value"
                             /\ last.val.t = "Number"
                             /\ IsTruncatedQuotient(Lhs.n, Rhs.n, last.val.n)
                        ELSE Failed /\ last.err = "Division by zero"

\* -7 / 2 has yielded -3, not the floor -4.
C8_Witness ==
    /\ Arithmetic("Div")
    /\ Lhs = Number(-7)
    /\ Rhs = Number(2)
    /\ Yielded(Number(-3))

\* ---- closures ----
\* The closure the claim prescribes for an invocation: self and the formal
\* parameters, nothing else.
Frame(receiver, formals, actuals) ==
    [n \in Names |->
        IF n = "self" THEN Share(receiver)
        ELSE IF \E k \in DOMAIN formals : formals[k] = n
        THEN actuals[CHOOSE k \in DOMAIN formals : formals[k] = n]
        ELSE Unbound]

\* The caller's closure once the arguments and the object of a call have been
\* evaluated: their assignments are the caller's own.
RECURSIVE Assigned(_, _, _)
Assigned(es, k, cl) ==
    IF k > Len(es) THEN cl
    ELSE Assigned(es, k + 1,
                  IF es[k].node = "Assignment"
                  THEN [cl EXCEPT ![es[k].var] = cl[NameOf(es[k])]]
                  ELSE cl)
CallerAfter == Assigned(TheCall.args \o <<TheCall.object>>, 1, last.pre)

\* C9: a method invoked by a MethodCall starts in a closure that holds exactly
\* self -> the receiver and each formal parameter -> the argument at its
\* position; after the call, returned from normally or by a Return, the
\* caller's closure holds none of the names the body has bound and all of the
\* caller's bindings as they were; the same holds for the __add__ that an Add
\* invokes.
C9_FreshClosurePerCall ==
    /\ CallOnInstance =>
          /\ \A k \in Events("enter") :
                last.log[k].closure =
                    Frame(Receiver,
                          Params(FirstNamed(last.log[k].cls, last.log[k].name)),
                          Actuals)
          /\ closure = CallerAfter
    /\ Arithmetic("Add") =>
          /\ \A k \in Events("enter") :
                last.log[k].closure =
                    Frame(Lhs,
                          Params(FirstNamed(last.log[k].cls, last.log[k].name)),
                          <<Rhs>>)
          /\ closure = last.pre

\* Derived.h(p, q) has bound x, Plain and returned q by a Return; the caller
\* has no x and no Plain.
C9_Witness ==
    /\ CallOnInstance
    /\ TheCall.method = "h"
    /\ \E k \in Events("assign") : last.log[k].name = "x"
    /\ Events("classdef") # {}
    /\ Yielded(Number(7))
    /\ closure["x"] = Unbound
    /\ closure["Plain"] = Unbound

\* C10 as stated: every effect of evaluating the object expression of a
\* MethodCall (here the assignment to o) comes before every effect of
\* evaluating an argument (an assignment to m, a line printed).
C10_ObjectBeforeArguments ==
    Done("MethodCall") =>
        \A a, b \in DOMAIN last.log :
            (/\ last.log[a].ev = "assign" /\ last.log[a].name = "o"
             /\ \/ last.log[b].ev = "assign" /\ last.log[b].name = "m"
                \/ last.log[b].ev = "print")
            => a < b

\* ---- logical statements, read off the history of the execution ----
Logical == Done("And") \/ Done("Or")
Falsy(v) ==
    \/ v = None
    \/ v = Number(0)
    \/ v = String(<<>>)
    \/ v = Bool(FALSE)
    \/ v.t \in {"Class", "ClassInstance"}
Truthy(v) == ~Falsy(v)
\* The executions of the left operand (x = ...) and of the right one (m = ...)
\* that came to a value, as places in the history.
LeftRuns == {k \in Events("assign") : last.log[k].name = "x"}
RightRuns == {k \in Events("assign") : last.log[k].name = "m"}
Connective(l, r) ==
    IF last.op = "And" THEN Truthy(l) /\ Truthy(r) ELSE Truthy(l) \/ Truthy(r)
RightNeeded(l) == IF last.op = "And" THEN Truthy(l) ELSE Falsy(l)
\* The place in Logicals of the statement with the l-th operand on the left
\* and the r-th on the right.
LogicalOf(l, r) == (r - 1) * Len(LogicOperands) + l

\* C11: And and Or execute the left operand first and once; the right operand
\* is executed, once, only if the left value is truthy (And) or falsy (Or); a
\* right operand that is skipped leaves no effect and raises no error; the
\* result is the Bool of the conjunction or disjunction of the operands'
\* truthiness, None, 0, the empty string, False, classes and instances being
\* falsy.
C11_ShortCircuit ==
    Logical =>
        /\ Cardinality(LeftRuns) <= 1
        /\ Cardinality(RightRuns) <= 1
        /\ \A l \in LeftRuns, r \in RightRuns : l < r
        /\ LeftRuns = {} => RightRuns = {} /\ Failed
        /\ \A l \in LeftRuns :
              IF RightNeeded(last.log[l].val)
              THEN \/ /\ RightRuns = {}
                      /\ Failed
                   \/ \E r \in RightRuns :
                         /\ r = Len(last.log)
                         /\ Yielded(Bool(Connective(last.log[l].val,
                                                    last.log[r].val)))
              ELSE /\ l = Len(last.log)
                   /\ closure["m"] = Unbound
                   /\ Yielded(Bool(last.op = "Or"))

\* zero and (two / zero): the division by zero on the right is never executed.
C11_Witness ==
    /\ Done("And")
    /\ last.idx = LogicalOf(2, 10)
    /\ LogicOperands[2] = Var("zero")
    /\ LogicOperands[10].node = "Div"
    /\ closure["x"] = Number(0)
    /\ closure["m"] = Unbound
    /\ Yielded(Bool(FALSE))

\* ---- shared instances: a step of the host from the state before a
\* statement to the state after it ----
ShareStep == pc = "idle" /\ pc' = "done" /\ last'.op = "Share"

\* The holder reached from object along ids[k], .., ids[n], each a field of
\* the instance reached so far.
RECURSIVE Through(_, _, _, _)
Through(ids, k, n, object) ==
    IF k > n THEN object
    ELSE IF object.t # "ClassInstance" THEN Unbound
    ELSE Through(ids, k + 1, n, heap[object.n].fields[ids[k]])

\* Reading ids[1]. ... .f yields what the field f of the instance behind the
\* holder holds.
ReadsField(ids) ==
    LET b == Through(ids, 2, Len(ids) - 1, closure[ids[1]])
        f == ids[Len(ids)]
    IN  b.t = "ClassInstance" =>
            IF heap[b.n].fields[f] = Unbound THEN last'.kind = "error"
            ELSE last'.kind = "value" /\ last'.val = heap[b.n].fields[f]

\* Writing a value v to the field f through the holder b changes that field of the
\* instance behind b and no field of any other instance.
WritesField(b, f, v) ==
    b.t = "ClassInstance" /\ v # Unbound =>
        /\ last'.kind = "value"
        /\ heap'[b.n].fields = [heap[b.n].fields EXCEPT ![f] = v]
        /\ \A id \in DOMAIN heap : id # b.n => heap'[id].fields = heap[id].fields

Observes(st) ==
    CASE st.node = "FieldAssignment" ->
            WritesField(closure[NameOf(st.object)], st.field_name,
                        closure[NameOf(st.rv)])
      [] st.node = "MethodCall" /\ st.method = "set" ->
            WritesField(closure[NameOf(st.object)], "v", closure[NameOf(st.args[1])])
      [] st.node = "Assignment" /\ st.rv.node = "VariableValue"
            /\ Len(st.rv.dotted_ids) > 1 ->
            ReadsField(st.rv.dotted_ids)
      [] OTHER -> TRUE

\* C12: instances are shared by reference: whatever holder of an instance a
\* field is written or read through (a copy made by an assignment, an argument
\* handed back by a method, a field of another instance, self inside a method,
\* or self handed out of a method) the write reaches the one field map of that
\* instance and the read yields what was written last; the fields of any other
\* instance stay as they were.
C12_SharedByReference == [][ShareStep => Observes(Shares[last'.idx])]_vars
=============================================================================
